---- MODULE Spec2Model ----
(***************************************************************************)
(* Model of plugins/modules/azure_rm_keyvaultsecret.py: the Ansible module *)
(* that reconciles one Azure Key Vault secret (create/update or delete).   *)
(*                                                                         *)
(* One invocation of AzureRMKeyVaultSecret.exec_module is a linear         *)
(* sequence of steps; the remote calls (get_secret, set_secret,            *)
(* delete_secret) are the points where other invocations can interleave.   *)
(* Python None is the empty sequence <<>>, a present value v is <<v>>.     *)
(* tags and content_type are passed through to set_secret untouched and    *)
(* take part in no decision; they are not represented.                     *)
(***************************************************************************)
EXTENDS Integers, Sequences, FiniteSets, TLC

VARIABLES store, nextVersion, params, check_mode, budget, pc, client,
          attempts, results, changed, valid_from, expiry, ret, error,
          outcome, writes, snap, prev

vars == <<store, nextVersion, params, check_mode, budget, pc, client,
          attempts, results, changed, valid_from, expiry, ret, error,
          outcome, writes, snap, prev>>

(* ---------------------------- bounds and domains ----------------------- *)

\* Number of successive invocations of the module with the same task.
MaxRuns == 2

Procs == {"p1", "p2"}

Names == {"A", "B"}

\* Secret values; "pw" and "PW" differ only by case.
Values == {"", "pw", "PW"}

None == <<>>

Some(x) == <<x>>

NoSecret == [exists |-> FALSE, value |-> "", version |-> 0]

\* Date strings a task can carry: one dateutil accepts, one it rejects.
GoodDate == "2030-01-01"

BadDate == "not a date"

DateParams == {None, Some(""), Some(GoodDate), Some(BadDate)}

AuthSources == {"auto", "cli", "msi", "env"}

(* ------------------------------ pure helpers --------------------------- *)

\* Python truthiness of an optional string: None and '' are falsy.
Truthy(o) == o # None /\ o[1] # ""

\* isinstance(x, str) and len(x) > 0
NonEmptyStr(o) == o # None /\ o[1] # ""

\* dateutil.parser.parse raises ValueError on this string.
ParseFailsNever(s) == FALSE

ParseFails(s) == s = BadDate

\* dateutil.parser.parse: the datetime a parsable string denotes (yyyymmdd).
ParseDate(s) == IF s = GoodDate THEN 20300101 ELSE 0

\* Lines 173-179: an optional date string after the parsing step.
ParsedParam(o) == IF NonEmptyStr(o) THEN Some(ParseDate(o[1])) ELSE o

\* Lines 173-179 raise.
DateError(p) ==
    \/ NonEmptyStr(p.secret_valid_from) /\ ParseFails(p.secret_valid_from[1])
    \/ NonEmptyStr(p.secret_expiry) /\ ParseFails(p.secret_expiry[1])

\* KeyVaultId.parse_secret_id(bundle.id).id : vault + name + version.
SecretId(name, version) == <<"secrets", name, version>>

EmptyDict == [secret_id |-> None, secret_value |-> None, status |-> None]

\* get_secret's return value for a bundle (line 246).
BundleDict(name, rec) ==
    [secret_id |-> Some(SecretId(name, rec.version)),
     secret_value |-> Some(rec.value),
     status |-> None]

\* Lines 200-239: the strategies tried, in order, and the client built.
get_keyvault_client_fallthrough(auth_source, msi_ok, cli_ok) ==
    IF auth_source = "msi" /\ msi_ok
    THEN [client |-> "msi", attempts |-> <<"msi">>]
    ELSE LET pre == IF auth_source = "msi" THEN <<"msi">> ELSE <<>> IN
         IF auth_source \in {"auto", "cli", "msi"}
         THEN IF cli_ok
              THEN [client |-> "cli", attempts |-> pre \o <<"cli">>]
              ELSE [client |-> "callback",
                    attempts |-> pre \o <<"cli", "callback">>]
         ELSE [client |-> "callback", attempts |-> <<"callback">>]

get_keyvault_client(auth_source, msi_ok, cli_ok) ==
    IF auth_source = "msi"
    THEN IF msi_ok
         THEN [client |-> "msi", attempts |-> <<"msi">>]
         ELSE [client |-> "callback", attempts |-> <<"msi", "callback">>]
    ELSE IF auth_source \in {"auto", "cli"}
         THEN IF cli_ok
              THEN [client |-> "cli", attempts |-> <<"cli">>]
              ELSE [client |-> "callback", attempts |-> <<"cli", "callback">>]
         ELSE [client |-> "callback", attempts |-> <<"callback">>]

\* Lines 154-168: the changed flag from the read's outcome.
\* oc = "bundle": get_secret returned; otherwise KeyVaultErrorException.
ComputeChangedEager(state, secret_value, oc, remote_value) ==
    IF oc = "bundle"
    THEN IF state = "absent"
         THEN TRUE
         ELSE Truthy(secret_value) /\ remote_value # secret_value[1]
    ELSE TRUE

ComputeChanged(state, secret_value, oc, remote_value) ==
    IF oc = "bundle"
    THEN IF state = "absent"
         THEN TRUE
         ELSE Truthy(secret_value) /\ remote_value # secret_value[1]
    ELSE state = "present"

\* Lines 181-196: the branch taken after the dates are parsed.
ApplyBranchNoCheck(cm, state, ch) ==
    IF state = "present" /\ ch THEN "create"
    ELSE IF state = "absent" /\ ch THEN "delete"
    ELSE "none"

ApplyBranch(cm, state, ch) ==
    IF ~cm
    THEN IF state = "present" /\ ch THEN "create"
         ELSE IF state = "absent" /\ ch THEN "delete"
         ELSE "none"
    ELSE IF state = "present" /\ ch THEN "check_created"
         ELSE IF state = "absent" /\ ch THEN "check_deleted"
         ELSE "none"

\* Lines 186, 191, 194, 196: the status label a branch sets.
StatusOfSwapped(branch) ==
    IF branch \in {"create", "check_created"} THEN Some("Deleted")
    ELSE IF branch \in {"delete", "check_deleted"} THEN Some("Created")
    ELSE None

StatusOf(branch) ==
    IF branch \in {"create", "check_created"} THEN Some("Created")
    ELSE IF branch \in {"delete", "check_deleted"} THEN Some("Deleted")
    ELSE None

\* The vault after client.set_secret(keyvault_uri, name, secret) (line 252).
create_update_secret_fixed(st, name, secret, version) ==
    [st EXCEPT !["A"] = [exists |-> TRUE, value |-> secret,
                         version |-> version]]

create_update_secret(st, name, secret, version) ==
    [st EXCEPT ![name] = [exists |-> TRUE, value |-> secret,
                          version |-> version]]

\* The vault after client.delete_secret(keyvault_uri, name) (line 258).
delete_secret(st, name) == [st EXCEPT ![name] = NoSecret]

(* ------------------------------- parameters ---------------------------- *)

\* required_if (lines 120-122): state=present needs a secret_value
\* (any string, '' included); state=absent may omit it.
SpecValues(state) ==
    IF state = "present" THEN {Some(v) : v \in Values}
    ELSE {None} \cup {Some(v) : v \in Values}

ParamSet(names, dates, sources, creds) ==
    {[secret_name |-> n, state |-> s, secret_value |-> v,
      secret_valid_from |-> f, secret_expiry |-> e,
      auth_source |-> a, sp_credentials |-> c] :
        n \in names, s \in {"present", "absent"}, v \in {None} \cup {Some(x) : x \in Values},
        f \in dates, e \in dates, a \in sources, c \in creds}

ValidParams(ps) == {q \in ps : q.secret_value \in SpecValues(q.state)}

Records == {NoSecret} \cup
           {[exists |-> TRUE, value |-> v, version |-> 0] : v \in Values}

(* --------------------------------- Init -------------------------------- *)

InitLocals ==
    /\ nextVersion = 1
    /\ check_mode = [p \in Procs |-> FALSE]
    /\ pc = [p \in Procs |-> "idle"]
    /\ client = [p \in Procs |-> "none"]
    /\ attempts = [p \in Procs |-> <<>>]
    /\ results = [p \in Procs |-> EmptyDict]
    /\ changed = [p \in Procs |-> FALSE]
    /\ valid_from = [p \in Procs |-> None]
    /\ expiry = [p \in Procs |-> None]
    /\ ret = [p \in Procs |-> None]
    /\ error = [p \in Procs |-> "none"]
    /\ outcome = [p \in Procs |-> "none"]
    /\ writes = [p \in Procs |-> <<>>]
    /\ prev = [p \in Procs |-> [pc |-> "idle", check_mode |-> FALSE,
                                outcome |-> "none"]]

\* One task, run MaxRuns times in a row against secret "A".
Init ==
    /\ InitLocals
    /\ \E r \in Records : store = [n \in Names |-> IF n = "A" THEN r ELSE NoSecret]
    /\ \E q \in ValidParams(ParamSet({"A"}, DateParams, AuthSources, BOOLEAN)) :
          params = [p \in Procs |-> q]
    /\ budget = [p \in Procs |-> IF p = "p1" THEN MaxRuns ELSE 0]
    /\ snap = [p \in Procs |-> store]

\* Two tasks, one invocation each, running concurrently.
InitConc ==
    /\ InitLocals
    /\ store \in [Names -> Records]
    /\ \E q1 \in ValidParams(ParamSet({"A"}, {None}, {"env"}, {TRUE})),
          q2 \in ValidParams(ParamSet(Names, {None}, {"env"}, {TRUE})) :
          params = [p \in Procs |-> IF p = "p1" THEN q1 ELSE q2]
    /\ budget = [p \in Procs |-> 1]
    /\ snap = [p \in Procs |-> store]

(* -------------------------------- actions ------------------------------ *)

\* A new invocation: __init__ (lines 108-143) and lines 147-148, 153-154.
Start(p) ==
    /\ pc[p] \in {"idle", "done", "failed"}
    /\ budget[p] > 0
    /\ budget' = [budget EXCEPT ![p] = @ - 1]
    /\ \E cm \in BOOLEAN : check_mode' = [check_mode EXCEPT ![p] = cm]
    /\ prev' = [prev EXCEPT ![p] = [pc |-> pc[p], check_mode |-> check_mode[p],
                                  outcome |-> outcome[p]]]
    /\ pc' = [pc EXCEPT ![p] = "auth"]
    /\ client' = [client EXCEPT ![p] = "none"]
    /\ attempts' = [attempts EXCEPT ![p] = <<>>]
    /\ results' = [results EXCEPT ![p] = EmptyDict]
    /\ changed' = [changed EXCEPT ![p] = FALSE]
    /\ valid_from' = [valid_from EXCEPT ![p] = None]
    /\ expiry' = [expiry EXCEPT ![p] = None]
    /\ ret' = [ret EXCEPT ![p] = None]
    /\ error' = [error EXCEPT ![p] = "none"]
    /\ outcome' = [outcome EXCEPT ![p] = "none"]
    /\ writes' = [writes EXCEPT ![p] = <<>>]
    /\ snap' = [snap EXCEPT ![p] = store]
    /\ UNCHANGED <<store, nextVersion, params>>

\* Line 151: self.client = self.get_keyvault_client()
GetKeyvaultClient(p) ==
    /\ pc[p] = "auth"
    /\ \E msi_ok \in BOOLEAN, cli_ok \in BOOLEAN :
          LET r == get_keyvault_client(params[p].auth_source, msi_ok, cli_ok) IN
          /\ client' = [client EXCEPT ![p] = r.client]
          /\ attempts' = [attempts EXCEPT ![p] = r.attempts]
    /\ pc' = [pc EXCEPT ![p] = "read"]
    /\ UNCHANGED <<store, nextVersion, params, check_mode, budget, results,
                   changed, valid_from, expiry, ret, error, outcome, writes,
                   snap, prev>>

Abort(p, err) ==
    /\ pc' = [pc EXCEPT ![p] = "failed"]
    /\ error' = [error EXCEPT ![p] = err]

\* Lines 156-171: read the secret and compute changed.  The first request
\* runs auth_callback (lines 221-237) when the client is the callback one.
GetSecret(p) ==
    /\ pc[p] = "read"
    /\ LET q == params[p]
           rec == store[q.secret_name] IN
       IF client[p] = "callback" /\ ~q.sp_credentials
       THEN /\ Abort(p, "fail")
            /\ UNCHANGED <<results, changed, outcome>>
       ELSE \E oc \in {IF rec.exists THEN "bundle" ELSE "not_found",
                       "kv_error", "exception"} :
              /\ outcome' = [outcome EXCEPT ![p] = oc]
              /\ IF oc = "exception"
                 THEN /\ Abort(p, "exception")
                      /\ UNCHANGED <<results, changed>>
                 ELSE /\ results' = [results EXCEPT ![p] =
                             IF oc = "bundle"
                             THEN BundleDict(q.secret_name, rec)
                             ELSE EmptyDict]
                      /\ changed' = [changed EXCEPT ![p] =
                             ComputeChanged(q.state, q.secret_value, oc, rec.value)]
                      /\ pc' = [pc EXCEPT ![p] = "parse"]
                      /\ UNCHANGED error
    /\ UNCHANGED <<store, nextVersion, params, check_mode, budget, client,
                   attempts, valid_from, expiry, ret, writes, snap, prev>>

\* Lines 173-179: parse secret_valid_from and secret_expiry.
ParseDates(p) ==
    /\ pc[p] = "parse"
    /\ IF DateError(params[p])
       THEN /\ Abort(p, "ValueError")
            /\ UNCHANGED <<valid_from, expiry>>
       ELSE /\ valid_from' = [valid_from EXCEPT ![p] =
                                 ParsedParam(params[p].secret_valid_from)]
            /\ expiry' = [expiry EXCEPT ![p] = ParsedParam(params[p].secret_expiry)]
            /\ pc' = [pc EXCEPT ![p] = "apply"]
            /\ UNCHANGED error
    /\ UNCHANGED <<store, nextVersion, params, check_mode, budget, client,
                   attempts, results, changed, ret, outcome, writes, snap, prev>>

Branch(p) == ApplyBranch(check_mode[p], params[p].state, changed[p])

\* Line 198: return self.results
Return(p, state) ==
    /\ pc' = [pc EXCEPT ![p] = "done"]
    /\ results' = [results EXCEPT ![p] = state]
    /\ ret' = [ret EXCEPT ![p] = Some([changed |-> changed[p], state |-> state])]

\* Lines 183-186 and 249-254: set the secret.
CreateUpdateSecret(p) ==
    /\ pc[p] = "apply"
    /\ Branch(p) = "create"
    /\ LET q == params[p] IN
       /\ writes' = [writes EXCEPT ![p] = Append(@,
                        [op |-> "set", name |-> q.secret_name,
                         value |-> q.secret_value[1],
                         not_before |-> valid_from[p], expires |-> expiry[p]])]
       /\ \E ok \in BOOLEAN :
             IF ok
             THEN /\ store' = create_update_secret(store, q.secret_name,
                                                   q.secret_value[1], nextVersion)
                  /\ nextVersion' = nextVersion + 1
                  /\ Return(p, [results[p] EXCEPT
                                  !.secret_id = Some(SecretId(q.secret_name, nextVersion)),
                                  !.status = StatusOf(Branch(p))])
                  /\ UNCHANGED error
             ELSE /\ Abort(p, "KeyVaultError")
                  /\ UNCHANGED <<store, nextVersion, results, ret>>
    /\ UNCHANGED <<params, check_mode, budget, client, attempts, changed,
                   valid_from, expiry, outcome, snap, prev>>

\* Lines 188-191 and 256-260: delete the secret.
DeleteSecret(p) ==
    /\ pc[p] = "apply"
    /\ Branch(p) = "delete"
    /\ LET q == params[p]
           rec == store[q.secret_name] IN
       /\ writes' = [writes EXCEPT ![p] = Append(@,
                        [op |-> "delete", name |-> q.secret_name,
                         value |-> "", not_before |-> None, expires |-> None])]
       /\ \E ok \in (IF rec.exists THEN BOOLEAN ELSE {FALSE}) :
             IF ok
             THEN /\ store' = delete_secret(store, q.secret_name)
                  /\ Return(p, [results[p] EXCEPT
                                  !.secret_id = Some(SecretId(q.secret_name, rec.version)),
                                  !.status = StatusOf(Branch(p))])
                  /\ UNCHANGED error
             ELSE /\ Abort(p, "KeyVaultError")
                  /\ UNCHANGED <<store, results, ret>>
    /\ UNCHANGED <<nextVersion, params, check_mode, budget, client, attempts,
                   changed, valid_from, expiry, outcome, snap, prev>>

\* Lines 192-196: check mode only labels the prospective change.
CheckModeStatus(p) ==
    /\ pc[p] = "apply"
    /\ Branch(p) \in {"check_created", "check_deleted"}
    /\ Return(p, [results[p] EXCEPT !.status = StatusOf(Branch(p))])
    /\ UNCHANGED <<store, nextVersion, params, check_mode, budget, client,
                   attempts, changed, valid_from, expiry, error, outcome,
                   writes, snap, prev>>

\* Lines 181-198 when no branch applies: the result of the read is returned.
NoChange(p) ==
    /\ pc[p] = "apply"
    /\ Branch(p) = "none"
    /\ Return(p, results[p])
    /\ UNCHANGED <<store, nextVersion, params, check_mode, budget, client,
                   attempts, changed, valid_from, expiry, error, outcome,
                   writes, snap, prev>>

Next ==
    \E p \in Procs :
        \/ Start(p)
        \/ GetKeyvaultClient(p)
        \/ GetSecret(p)
        \/ ParseDates(p)
        \/ CreateUpdateSecret(p)
        \/ DeleteSecret(p)
        \/ CheckModeStatus(p)
        \/ NoChange(p)

Spec == Init /\ [][Next]_vars

SpecConc == InitConc /\ [][Next]_vars

(* ------------------------- checked properties -------------------------- *)

Result(p) == ret[p][1]

Returned(p) == pc[p] = "done"

\* The remote state of p's secret when p's invocation started.
Before(p) == snap[p][params[p].secret_name]

\* C1: idempotence.  When the previous invocation of the same task was not
\* a dry run and returned successfully, the next invocation issues no
\* set-secret or delete-secret call and reports changed=false.
Claim_C1_Idempotent ==
    \A p \in Procs :
        (prev[p].pc = "done" /\ ~prev[p].check_mode)
            => /\ writes[p] = <<>>
               /\ (Returned(p) => ~Result(p).changed)

\* C2: in check mode an invocation never calls set-secret or delete-secret
\* and the vault stays identical to the vault before the invocation.
Thm_C2_DryRunNoWrite ==
    \A p \in Procs :
        (check_mode[p] /\ pc[p] # "idle")
            => writes[p] = <<>> /\ store = snap[p]

Wit_C2_DryRunChanged ==
    \E p \in Procs :
        /\ Returned(p) /\ check_mode[p] /\ Result(p).changed
        /\ Result(p).state.status # None

\* The decision table of the reconciler (spec 4.2, step 2).
DecisionTable(found, state, remote_value, secret_value) ==
    \/ ~found /\ state = "present"
    \/ found /\ state = "absent"
    \/ found /\ state = "present" /\ Some(remote_value) # secret_value

\* C3: the reported changed flag equals the decision table for every remote
\* state (not found, or found with any value) and every accepted task, the
\* empty secret_value included, with plain string equality.
Claim_C3_DecisionTable ==
    \A p \in Procs :
        (Returned(p) /\ outcome[p] \in {"bundle", "not_found"})
            => Result(p).changed =
                  DecisionTable(Before(p).exists, params[p].state,
                                Before(p).value, params[p].secret_value)

\* C4: when the read fails with anything but NotFound, the invocation
\* aborts: no result is returned and no set-secret or delete-secret call
\* is issued.
Claim_C4_ReadErrorAborts ==
    \A p \in Procs :
        outcome[p] \in {"kv_error", "exception"}
            => ret[p] = None /\ writes[p] = <<>>

\* C5 as stated: after a failed managed-identity attempt the resolver next
\* attempts the CLI profile.
Claim_C5_MsiThenCli ==
    \A p \in Procs :
        (Len(attempts[p]) >= 2 /\ attempts[p][1] = "msi")
            => attempts[p][2] = "cli"

\* C5 amended: managed identity is attempted only for auth_source=msi and
\* the CLI profile only for auth_source auto or cli; when the attempted
\* strategy fails, or none applies, the explicit service-principal callback
\* credential is built, and the CLI profile is never attempted after MSI.
\* The client comes from the last strategy attempted.
Thm_C5_CredentialOrder ==
    \A p \in Procs :
        client[p] # "none"
            => /\ attempts[p] \in
                    (IF params[p].auth_source = "msi"
                     THEN {<<"msi">>, <<"msi", "callback">>}
                     ELSE IF params[p].auth_source \in {"auto", "cli"}
                          THEN {<<"cli">>, <<"cli", "callback">>}
                          ELSE {<<"callback">>})
               /\ client[p] = attempts[p][Len(attempts[p])]

Wit_C5_MsiFailed ==
    \E p \in Procs :
        /\ params[p].auth_source = "msi"
        /\ attempts[p] = <<"msi", "callback">>
        /\ client[p] = "callback"

\* C6: the returned state never contains the secret value.
Claim_C6_NoSecretValue ==
    \A p \in Procs :
        Returned(p) => Result(p).state.secret_value = None

\* C7: with state=absent and no secret of that name in the vault, the
\* invocation issues no write, leaves the vault unchanged, and reports
\* changed=false with no status.
Thm_C7_AbsentNoop ==
    \A p \in Procs :
        (pc[p] # "idle" /\ params[p].state = "absent" /\ ~Before(p).exists)
            => /\ writes[p] = <<>>
               /\ store = snap[p]
               /\ (Returned(p) => /\ ~Result(p).changed
                                  /\ Result(p).state.status = None)

Wit_C7_AbsentNoop ==
    \E p \in Procs :
        /\ Returned(p) /\ params[p].state = "absent" /\ ~Before(p).exists
        /\ params[p].secret_value # None /\ ~check_mode[p]
        /\ outcome[p] = "not_found"

\* C8: the returned state carries a status exactly when changed=true; the
\* label is Created for state=present and Deleted for state=absent, in a
\* real run (after exactly one write) and in a dry run (after none).
Thm_C8_StatusIffChanged ==
    \A p \in Procs :
        Returned(p)
            => /\ (Result(p).state.status # None) = Result(p).changed
               /\ Result(p).changed
                    => /\ Result(p).state.status =
                            (IF params[p].state = "present"
                             THEN Some("Created") ELSE Some("Deleted"))
                       /\ Len(writes[p]) = (IF check_mode[p] THEN 0 ELSE 1)
               /\ ~Result(p).changed => writes[p] = <<>>

Wit_C8_UpdateCreated ==
    \E p \in Procs :
        /\ Returned(p) /\ ~check_mode[p] /\ outcome[p] = "bundle"
        /\ Result(p).changed
        /\ Result(p).state.status = Some("Created")

HasBadDate(q) ==
    q.secret_valid_from = Some(BadDate) \/ q.secret_expiry = Some(BadDate)

\* C9 as stated: an unparsable date string fails the invocation only on
\* the path that is not a dry run and has changed=true with state=present.
Claim_C9_ParseOnlyOnCreate ==
    \A p \in Procs :
        error[p] = "ValueError"
            => ~check_mode[p] /\ changed[p] /\ params[p].state = "present"

\* C9 amended: the date strings are parsed on every path, after the read
\* and before the check-mode test; an unparsable non-empty string fails the
\* invocation before any write and without a result, in a dry run, with
\* state=absent and with changed=false too, and only such a string does.
Thm_C9_ParseOnEveryPath ==
    \A p \in Procs :
        /\ HasBadDate(params[p])
              => /\ pc[p] \notin {"apply", "done"}
                 /\ writes[p] = <<>>
                 /\ ret[p] = None
                 /\ (pc[p] = "failed" /\ outcome[p] \notin {"none", "exception"}
                        => error[p] = "ValueError")
        /\ error[p] = "ValueError" => HasBadDate(params[p])

Wit_C9_DeleteNotPerformed ==
    \E p \in Procs :
        /\ error[p] = "ValueError" /\ params[p].state = "absent"
        /\ outcome[p] = "bundle" /\ changed[p]
        /\ store[params[p].secret_name].exists

DistinctNames == params["p1"].secret_name # params["p2"].secret_name

\* What an invocation running alone produces from the remote state Before(p).
AloneOK(p) ==
    LET q  == params[p]
        s0 == Before(p)
        ch == ComputeChanged(q.state, q.secret_value, outcome[p], s0.value)
        br == ApplyBranch(check_mode[p], q.state, ch)
        now == store[q.secret_name] IN
    /\ \A i \in 1..Len(writes[p]) : writes[p][i].name = q.secret_name
    /\ pc[p] \in {"parse", "apply", "done"}
          => /\ outcome[p] \in {IF s0.exists THEN "bundle" ELSE "not_found",
                                "kv_error"}
             /\ changed[p] = ch
             /\ outcome[p] = "bundle"
                   => results[p].secret_value = Some(s0.value)
    /\ Returned(p)
          => /\ Result(p).changed = ch
             /\ Result(p).state.status = StatusOf(br)
             /\ br = "create" => now.exists /\ now.value = q.secret_value[1]
             /\ br = "delete" => ~now.exists
             /\ br \notin {"create", "delete"} => now = s0

\* A step changes a secret of the vault only if the invocation taking the
\* step is the one named after that secret.
OwnSecretOnly ==
    \A n \in Names :
        store'[n] # store[n]
            => \E p \in Procs : pc'[p] # pc[p] /\ params[p].secret_name = n

\* C10: two invocations on different secret names, under every
\* interleaving, each observe and return what they would alone, leave their
\* own secret in the same final state, and never touch the other's secret.
Thm_C10_Independent ==
    /\ [](DistinctNames => \A p \in Procs : AloneOK(p))
    /\ [][OwnSecretOnly]_vars

Wit_C10_BothWrote ==
    /\ DistinctNames
    /\ \A p \in Procs : Returned(p) /\ Len(writes[p]) = 1

====
